---- MODULE Spec2Model ----
(***************************************************************************)
(* Model of the bedrock-forge example handlers:                            *)
(*   summary_generator.py  lambda_handler / generate_summary / summaries   *)
(*   text_processor.py     lambda_handler / process_text                   *)
(*   order-lookup/app.py   handler / lookup_order                          *)
(*   product-search-api/app.py  search_products                            *)
(*                                                                         *)
(* A Python str that the code inspects character by character is a         *)
(* sequence of one-character strings; fixed messages and dictionary keys   *)
(* that the code only compares or passes through are TLA+ strings.         *)
(* A JSON value is a record [t, s, n]: t is the Python type, s the str     *)
(* content, n the int content.                                             *)
(***************************************************************************)
EXTENDS Integers, Sequences, FiniteSets, TLC

\* handler, input, outcome: the invocation in progress and what it did.
\* first: what an observer of the process wrote down about one earlier
\* brief-summary call, to compare later calls with it.
VARIABLES handler, input, outcome, first

vars == <<handler, input, outcome, first>>

(***************************************************************************)
(* Bounds of the model.                                                    *)
(***************************************************************************)
MaxTextLen == 5
MaxParams == 3
MaxRepeatLen == 2

(***************************************************************************)
(* Program constants.                                                      *)
(***************************************************************************)
MaxDetailSentences == 5
DetailFirst == 3
DetailLast == 2
MaxBulletPoints == 5
BulletSentenceMax == 100
BulletSentenceKeep == 97

(***************************************************************************)
(* Python values.                                                          *)
(***************************************************************************)
PStr(s) == [t |-> "str", s |-> s, n |-> 0]
PInt(k) == [t |-> "int", s |-> <<>>, n |-> k]
PNone == [t |-> "null", s |-> <<>>, n |-> 0]

\* Mutant: `if v is not None` in place of `if v`.
Truthy_not_none(v) == v.t # "null"

\* bool(v): the truth value Python's `if v` / `not v` uses.
Truthy(v) ==
    CASE v.t = "str" -> v.s # <<>>
      [] v.t = "int" -> v.n # 0
      [] OTHER -> FALSE

\* A call either returns a value or raises; msg is str(e) of the exception.
Ok(v) == [raised |-> FALSE, value |-> v]
Raise(m) == [raised |-> TRUE, msg |-> m]

\* A dict is the sequence of its items [key, value] in insertion order.
HasKey(d, key) == \E i \in 1..Len(d) : d[i].key = key

\* dict.get(key, default)
DictGet(d, key, default) ==
    IF HasKey(d, key)
    THEN d[CHOOSE i \in 1..Len(d) : d[i].key = key].value
    ELSE default

\* d[key] = value
DictSet(d, key, value) ==
    IF HasKey(d, key)
    THEN [i \in 1..Len(d) |->
            IF d[i].key = key THEN [key |-> key, value |-> value] ELSE d[i]]
    ELSE Append(d, [key |-> key, value |-> value])

EmptyDict == <<>>

Min(a, b) == IF a <= b THEN a ELSE b
Max(a, b) == IF a >= b THEN a ELSE b

(***************************************************************************)
(* Python str operations on character sequences.                           *)
(***************************************************************************)
Whitespace == {" ", "\n"}

\* s[:k], with Python's meaning of a negative k (counted from the end).
SliceTo(s, k) ==
    IF k >= 0 THEN SubSeq(s, 1, Min(k, Len(s)))
    ELSE SubSeq(s, 1, Max(0, Len(s) + k))

\* s[-k:] for k > 0
SliceLast(s, k) == SubSeq(s, Max(1, Len(s) - k + 1), Len(s))

RECURSIVE LStrip(_)
LStrip(s) ==
    IF s # <<>> /\ Head(s) \in Whitespace THEN LStrip(Tail(s)) ELSE s

RECURSIVE RStrip(_)
RStrip(s) ==
    IF s # <<>> /\ s[Len(s)] \in Whitespace
    THEN RStrip(SubSeq(s, 1, Len(s) - 1)) ELSE s

\* str.strip()
Strip(s) == RStrip(LStrip(s))

\* str.split(sep) for a one-character separator: k separators, k+1 fragments.
RECURSIVE SplitOn(_, _)
SplitOn(s, sep) ==
    IF \E i \in 1..Len(s) : s[i] = sep
    THEN LET i == CHOOSE j \in 1..Len(s) :
                     s[j] = sep /\ \A k \in 1..(j - 1) : s[k] # sep
         IN  <<SubSeq(s, 1, i - 1)>> \o SplitOn(SubSeq(s, i + 1, Len(s)), sep)
    ELSE <<s>>

\* sep.join(parts)
RECURSIVE Join(_, _)
Join(parts, sep) ==
    IF parts = <<>> THEN <<>>
    ELSE IF Len(parts) = 1 THEN parts[1]
    ELSE parts[1] \o sep \o Join(Tail(parts), sep)

\* [f.strip() for f in frags if f.strip()]
StripNonEmpty(frags) ==
    LET stripped == [i \in 1..Len(frags) |-> Strip(frags[i])]
    IN  SelectSeq(stripped, LAMBDA f : f # <<>>)

\* sentences = [s.strip() for s in text.split('.') if s.strip()]
Sentences(text) == StripNonEmpty(SplitOn(text, "."))

(***************************************************************************)
(* summary_generator.py: string literals of the summarizer.                *)
(***************************************************************************)
S_brief == <<"b", "r", "i", "e", "f">>
S_detailed == <<"d", "e", "t", "a", "i", "l", "e", "d">>
S_bullet_points == <<"b", "u", "l", "l", "e", "t", "_", "p", "o", "i", "n", "t", "s">>
S_no_content == <<"N", "o", " ", "c", "o", "n", "t", "e", "n", "t", " ", "t", "o", " ", "s", "u", "m", "m", "a", "r", "i", "z", "e", ".">>
Ellipsis == <<".", ".", ".">>
PeriodSpace == <<".", " ">>
Period == <<".">>
Newline == <<"\n">>
\* The bullet prefix of the source file is the three characters U+00E2 U+20AC
\* U+00A2 followed by a space.
BulletPrefix == <<"U+00E2", "U+20AC", "U+00A2", " ">>

\* `if max_length and len(summary) > max_length:
\*      summary = summary[:max_length-3] + "..."`
ApplyMaxLength(summary, max_length) ==
    IF Truthy(max_length) /\ Len(summary) > max_length.n
    THEN SliceTo(summary, max_length.n - 3) \o Ellipsis
    ELSE summary

\* Mutant: sentences[1] in place of sentences[-1].
generate_brief_summary_second(text, max_length) ==
    LET sentences == Sentences(text)
        n == Len(sentences)
        summary ==
            IF n = 1 THEN sentences[1]
            ELSE sentences[1] \o PeriodSpace \o sentences[2]
    IN  IF n = 0 THEN S_no_content
        ELSE ApplyMaxLength(summary, max_length)

\* Mutant: the sentence list outlives the call (a module-level list that is
\* appended to), so the sentences of an earlier text come first.
generate_brief_summary_leftover(text, max_length) ==
    LET sentences == (IF first.recorded THEN Sentences(first.text)
                      ELSE <<>>) \o Sentences(text)
        n == Len(sentences)
        summary ==
            IF n = 1 THEN sentences[1]
            ELSE IF n = 2 THEN sentences[1] \o PeriodSpace \o sentences[2]
            ELSE sentences[1] \o PeriodSpace \o sentences[n]
    IN  IF n = 0 THEN S_no_content
        ELSE ApplyMaxLength(summary, max_length)

generate_brief_summary(text, max_length) ==
    LET sentences == Sentences(text)
        n == Len(sentences)
        summary ==
            IF n = 1 THEN sentences[1]
            ELSE IF n = 2 THEN sentences[1] \o PeriodSpace \o sentences[2]
            ELSE sentences[1] \o PeriodSpace \o sentences[n]
    IN  IF n = 0 THEN S_no_content
        ELSE ApplyMaxLength(summary, max_length)

\* Mutant: the joined sentences without the final period.
generate_detailed_summary_no_period(text, max_length) ==
    LET sentences == Sentences(text)
        n == Len(sentences)
        max_sentences == Min(MaxDetailSentences, n)
        summary ==
            IF n <= max_sentences
            THEN Join(sentences, PeriodSpace)
            ELSE Join(SliceTo(sentences, DetailFirst)
                          \o SliceLast(sentences, DetailLast), PeriodSpace)
    IN  IF n = 0 THEN S_no_content
        ELSE ApplyMaxLength(summary, max_length)

generate_detailed_summary(text, max_length) ==
    LET sentences == Sentences(text)
        n == Len(sentences)
        max_sentences == Min(MaxDetailSentences, n)
        summary ==
            IF n <= max_sentences
            THEN Join(sentences, PeriodSpace) \o Period
            ELSE Join(SliceTo(sentences, DetailFirst)
                          \o SliceLast(sentences, DetailLast), PeriodSpace)
                 \o Period
    IN  IF n = 0 THEN S_no_content
        ELSE ApplyMaxLength(summary, max_length)

\* The loop of generate_bullet_points_summary that keeps the bullet points
\* fitting in max_length - 3: it stops at the first point that does not fit.
RECURSIVE TruncatePoints(_, _, _)
TruncatePoints(points, current_length, limit) ==
    IF points = <<>> THEN <<>>
    ELSE IF current_length + Len(Head(points)) + 1 <= limit
    THEN <<Head(points)>>
         \o TruncatePoints(Tail(points),
                           current_length + Len(Head(points)) + 1, limit)
    ELSE <<>>

generate_bullet_points_summary(text, max_length) ==
    LET sentences == Sentences(text)
        n == Len(sentences)
        max_points == Min(MaxBulletPoints, n)
        selected == SliceTo(sentences, max_points)
        bullet_points ==
            [i \in 1..Len(selected) |->
                BulletPrefix \o
                (IF Len(selected[i]) > BulletSentenceMax
                 THEN SliceTo(selected[i], BulletSentenceKeep) \o Ellipsis
                 ELSE selected[i])]
        summary == Join(bullet_points, Newline)
    IN  IF n = 0 THEN S_no_content
        ELSE IF Truthy(max_length) /\ Len(summary) > max_length.n
        THEN Join(TruncatePoints(bullet_points, 0, max_length.n - 3), Newline)
             \o Ellipsis
        ELSE summary

(***************************************************************************)
(* int(x) as generate_summary uses it (summary_generator.py:78-82).        *)
(***************************************************************************)
Digits == {"0", "1", "2", "3", "4", "5", "6", "7", "8", "9"}

DigitVal(c) ==
    CASE c = "0" -> 0 [] c = "1" -> 1 [] c = "2" -> 2 [] c = "3" -> 3
      [] c = "4" -> 4 [] c = "5" -> 5 [] c = "6" -> 6 [] c = "7" -> 7
      [] c = "8" -> 8 [] c = "9" -> 9

RECURSIVE DigitsVal(_)
DigitsVal(ds) ==
    IF ds = <<>> THEN 0
    ELSE DigitsVal(SubSeq(ds, 1, Len(ds) - 1)) * 10 + DigitVal(ds[Len(ds)])

AllDigits(ds) == ds # <<>> /\ \A i \in 1..Len(ds) : ds[i] \in Digits

\* int(v): an int is itself; a str is stripped, then an optional sign and
\* decimal digits; None is a TypeError, anything else in a str a ValueError.
PyInt(v) ==
    CASE v.t = "int" -> Ok(v.n)
      [] v.t = "null" -> Raise("TypeError")
      [] OTHER ->
            LET s == Strip(v.s)
                signed == s # <<>> /\ Head(s) \in {"+", "-"}
                ds == IF signed THEN Tail(s) ELSE s
            IN  IF AllDigits(ds)
                THEN Ok(IF signed /\ Head(s) = "-"
                        THEN 0 - DigitsVal(ds) ELSE DigitsVal(ds))
                ELSE Raise("ValueError")

(***************************************************************************)
(* Response envelopes (summary_generator.py:216-276, the same code as      *)
(* text_processor.py:170-230).  body is the object json.dumps encodes.     *)
(***************************************************************************)
\* Names and action groups: strings the code compares and formats only.
NStr(x) == [t |-> "str", v |-> x]
NNone == [t |-> "null", v |-> ""]

\* f"{name}"
Format(name) == IF name.t = "null" THEN "None" ELSE name.v

NoDetails == [kind |-> "none"]
ListDetails(items) == [kind |-> "list", items |-> items]
DictDetails(key, items) == [kind |-> "dict", key |-> key, items |-> items]
StrDetails(text) == [kind |-> "str", text |-> text]

\* `if details:`
DetailsTruthy(details) ==
    CASE details.kind = "none" -> FALSE
      [] details.kind = "str" -> details.text # ""
      [] OTHER -> details.items # <<>>

create_success_response(action_group, function_name, result) ==
    [messageVersion |-> "1.0",
     response |->
        [actionGroup |-> action_group,
         function |-> function_name,
         functionResponse |->
            [responseBody |-> [TEXT |-> [body |-> result]]]]]

\* Mutant: details are kept only when they are a mapping.
create_error_response_dicts(action_group, function_name, error_message, details) ==
    LET error_data ==
            IF details.kind = "dict"
            THEN [error |-> error_message, details |-> details]
            ELSE [error |-> error_message]
    IN  [messageVersion |-> "1.0",
         response |->
            [actionGroup |-> action_group,
             function |-> function_name,
             functionResponse |->
                [responseState |-> "FAILURE",
                 responseBody |-> [TEXT |-> [body |-> error_data]]]]]

create_error_response(action_group, function_name, error_message, details) ==
    LET error_data ==
            IF DetailsTruthy(details)
            THEN [error |-> error_message, details |-> details]
            ELSE [error |-> error_message]
    IN  [messageVersion |-> "1.0",
         response |->
            [actionGroup |-> action_group,
             function |-> function_name,
             functionResponse |->
                [responseState |-> "FAILURE",
                 responseBody |-> [TEXT |-> [body |-> error_data]]]]]

\* What a handler call did: the envelope it returned (or the fault that
\* escaped it), and the faults its except clauses caught on the way.
Returned(envelope, caught) ==
    [raised |-> FALSE, value |-> envelope, caught |-> caught]
Escaped(msg, caught) == [raised |-> TRUE, msg |-> msg, caught |-> caught]

(***************************************************************************)
(* summary_generator.py: generate_summary                                  *)
(***************************************************************************)
SummaryTypes == <<S_brief, S_detailed, S_bullet_points>>

InList(v, list) == \E i \in 1..Len(list) : v = list[i]

\* round(a / b, 2) in hundredths.  Python rounds the float to the nearest
\* hundredth, ties to even; a tie needs a length b that is a multiple of 8,
\* and a / b is then an exact binary fraction.
RoundRatio(a, b) ==
    LET q == (100 * a) \div b
        r == (100 * a) % b
    IN  IF 2 * r < b THEN q
        ELSE IF 2 * r > b THEN q + 1
        ELSE IF q % 2 = 0 THEN q ELSE q + 1

generate_summary(parameters, action_group, function_name) ==
    LET text == DictGet(parameters, "text", PStr(<<>>))
        summary_type == DictGet(parameters, "summary_type", PStr(S_brief))
        given == DictGet(parameters, "max_length", PNone)
        max_length ==
            IF given.t # "null" /\ ~PyInt(given).raised
            THEN PInt(PyInt(given).value) ELSE PNone
        summary ==
            IF summary_type.s = S_brief
            THEN generate_brief_summary(text.s, max_length)
            ELSE IF summary_type.s = S_detailed
            THEN generate_detailed_summary(text.s, max_length)
            ELSE generate_bullet_points_summary(text.s, max_length)
        result ==
            [summary_id |-> [prefix |-> "sum_",
                             hash_of |-> text.s \o summary_type.s],
             summary |-> summary,
             summary_type |-> summary_type.s,
             original_length |-> Len(text.s),
             summary_length |-> Len(summary),
             compression_ratio |->
                IF text.s # <<>> THEN RoundRatio(Len(summary), Len(text.s))
                ELSE 0]
    IN  IF ~Truthy(text)
        THEN Returned(create_error_response(action_group, function_name,
                        "Missing required parameter: text", NoDetails), <<>>)
        ELSE IF ~(summary_type.t = "str" /\ InList(summary_type.s, SummaryTypes))
        THEN Returned(create_error_response(action_group, function_name,
                        "Invalid summary_type",
                        DictDetails("valid_types", SummaryTypes)), <<>>)
        ELSE IF text.t # "str"
        THEN \* len(text) at line 100 raises; the except at 125 catches it
             Returned(create_error_response(action_group, function_name,
                        "Summary generation failed",
                        StrDetails("object of type 'int' has no len()")),
                      <<"object of type 'int' has no len()">>)
        ELSE Returned(create_success_response(action_group, function_name,
                        result), <<>>)

(***************************************************************************)
(* summary_generator.py: lambda_handler                                    *)
(***************************************************************************)
\* An event is a JSON value: a mapping [t |-> "dict", fields |-> f] or a
\* value that is no mapping.  x.get(...) on anything but a mapping raises.
IsMapping(x) == x.t = "dict"

NoAttributeGet == "object has no attribute 'get'"
NotIterable == "object is not iterable"

\* parameters = {}
\* for param in parameters_list:
\*     parameters[param.get('name', '')] = param.get('value', '')
RECURSIVE FoldParameters(_, _)
FoldParameters(items, parameters) ==
    IF items = <<>> THEN Ok(parameters)
    ELSE IF ~IsMapping(Head(items)) THEN Raise(NoAttributeGet)
    ELSE FoldParameters(Tail(items),
            DictSet(parameters,
                    DictGet(Head(items).fields, "name", ""),
                    DictGet(Head(items).fields, "value", PStr(<<>>))))

NormalizeParameters(parameters_list) ==
    IF parameters_list.t # "list" THEN Raise(NotIterable)
    ELSE FoldParameters(parameters_list.items, EmptyDict)

EmptyList == [t |-> "list", items |-> <<>>]

\* The except clause of lambda_handler (lines 50-57): it reads the event
\* again, so it raises in turn when the event is no mapping.
HandlerExcept(event, msg) ==
    IF ~IsMapping(event) THEN Escaped(NoAttributeGet, <<msg>>)
    ELSE Returned(create_error_response(
                      DictGet(event.fields, "actionGroup", NStr("")),
                      DictGet(event.fields, "function", NStr("")),
                      "Internal server error", StrDetails(msg)),
                  <<msg>>)

\* Mutant: the details of an unknown function list both deployed functions.
summary_lambda_handler_lists_all(event) ==
    IF ~IsMapping(event) THEN HandlerExcept(event, NoAttributeGet)
    ELSE
    LET function_name == DictGet(event.fields, "function", NStr(""))
        action_group == DictGet(event.fields, "actionGroup", NStr(""))
        parameters_list == DictGet(event.fields, "parameters", EmptyList)
        parameters == NormalizeParameters(parameters_list)
    IN  IF parameters.raised THEN HandlerExcept(event, parameters.msg)
        ELSE IF function_name = NStr("generate_summary")
        THEN generate_summary(parameters.value, action_group, function_name)
        ELSE Returned(create_error_response(action_group, function_name,
                        "Unknown function: " \o Format(function_name),
                        ListDetails(<<"generate_summary", "process_text">>)),
                      <<>>)

summary_lambda_handler(event) ==
    IF ~IsMapping(event) THEN HandlerExcept(event, NoAttributeGet)
    ELSE
    LET function_name == DictGet(event.fields, "function", NStr(""))
        action_group == DictGet(event.fields, "actionGroup", NStr(""))
        parameters_list == DictGet(event.fields, "parameters", EmptyList)
        parameters == NormalizeParameters(parameters_list)
    IN  IF parameters.raised THEN HandlerExcept(event, parameters.msg)
        ELSE IF function_name = NStr("generate_summary")
        THEN generate_summary(parameters.value, action_group, function_name)
        ELSE Returned(create_error_response(action_group, function_name,
                        "Unknown function: " \o Format(function_name),
                        ListDetails(<<"generate_summary">>)), <<>>)

(***************************************************************************)
(* More str operations.                                                    *)
(***************************************************************************)
LowerChar(c) ==
    CASE c = "A" -> "a"
      [] c = "B" -> "b"
      [] c = "C" -> "c"
      [] c = "D" -> "d"
      [] c = "E" -> "e"
      [] c = "F" -> "f"
      [] c = "G" -> "g"
      [] c = "H" -> "h"
      [] c = "I" -> "i"
      [] c = "J" -> "j"
      [] c = "K" -> "k"
      [] c = "L" -> "l"
      [] c = "M" -> "m"
      [] c = "N" -> "n"
      [] c = "O" -> "o"
      [] c = "P" -> "p"
      [] c = "Q" -> "q"
      [] c = "R" -> "r"
      [] c = "S" -> "s"
      [] c = "T" -> "t"
      [] c = "U" -> "u"
      [] c = "V" -> "v"
      [] c = "W" -> "w"
      [] c = "X" -> "x"
      [] c = "Y" -> "y"
      [] c = "Z" -> "z"
      [] OTHER -> c

\* str.lower()
Lower(s) == [i \in 1..Len(s) |-> LowerChar(s[i])]

\* len(s.split()): the number of maximal runs of non-whitespace characters
WordCount(s) ==
    Cardinality({i \in 1..Len(s) :
        /\ s[i] \notin Whitespace
        /\ (i = 1 \/ s[i - 1] \in Whitespace)})

\* s.endswith(suffix)
EndsWith(s, suffix) ==
    /\ Len(s) >= Len(suffix)
    /\ SubSeq(s, Len(s) - Len(suffix) + 1, Len(s)) = suffix

\* needle in haystack
Contains(haystack, needle) ==
    \E i \in 0..(Len(haystack) - Len(needle)) :
        SubSeq(haystack, i + 1, i + Len(needle)) = needle

(***************************************************************************)
(* text_processor.py: process_text                                         *)
(***************************************************************************)
S_extract == <<"e", "x", "t", "r", "a", "c", "t">>
S_analyze == <<"a", "n", "a", "l", "y", "z", "e">>
S_clean == <<"c", "l", "e", "a", "n">>
S_dot_txt == <<".", "t", "x", "t">>
S_dot_json == <<".", "j", "s", "o", "n">>

ProcessingTypes == <<S_extract, S_analyze, S_clean>>

ExtractLimit == 1000

\* What s3_client.get_object finds.  An object is its size in bytes,
\* whether the bytes are valid UTF-8, the text they decode to (invalid
\* bytes dropped), whether that text is JSON and, if so, its json.dumps
\* with indent 2.
NoSuchKey == [found |-> FALSE]

PlainObject ==
    [found |-> TRUE, size |-> Len(<<" ", "A", " ", "b", "\n", "\n", " ", "B", " ">>), utf8 |-> TRUE,
     text |-> <<" ", "A", " ", "b", "\n", "\n", " ", "B", " ">>, json |-> FALSE, pretty |-> <<>>]

JsonObject ==
    [found |-> TRUE, size |-> Len(<<"1", " ">>), utf8 |-> TRUE,
     text |-> <<"1", " ">>, json |-> TRUE, pretty |-> <<"1">>]

BinaryObject ==
    [found |-> TRUE, size |-> Len(<<"A">>) + 1, utf8 |-> FALSE,
     text |-> <<"A">>, json |-> FALSE, pretty |-> <<>>]

StoreOutcomes == {NoSuchKey, PlainObject, JsonObject, BinaryObject}

MsgNoSuchKey ==
    "An error occurred (NoSuchKey) when calling the GetObject operation"
MsgParamValidation == "Parameter validation failed"
MsgUnicodeDecode == "'utf-8' codec can't decode byte"
MsgJsonDecode == "Expecting value: line 1 column 1 (char 0)"

\* response = s3_client.get_object(...); file_content = response['Body'].read()
\* and the decoding of lines 96-103.
FetchText(s3_bucket, s3_key, found) ==
    IF s3_bucket.t # "str" \/ s3_key.t # "str" THEN Raise(MsgParamValidation)
    ELSE IF ~found.found THEN Raise(MsgNoSuchKey)
    ELSE IF EndsWith(Lower(s3_key.s), S_dot_txt)
    THEN IF found.utf8 THEN Ok(found.text) ELSE Raise(MsgUnicodeDecode)
    ELSE IF EndsWith(Lower(s3_key.s), S_dot_json)
    THEN IF ~found.utf8 THEN Raise(MsgUnicodeDecode)
         ELSE IF ~found.json THEN Raise(MsgJsonDecode)
         ELSE Ok(found.pretty)
    ELSE Ok(found.text)

\* s3_key.split('.')[-1].lower()
FileType(s3_key) ==
    Lower(SplitOn(s3_key, ".")[Len(SplitOn(s3_key, "."))])

\* processed_text = text_content.strip()
\* '\n'.join(line.strip() for line in processed_text.split('\n') if line.strip())
CleanText(text_content) ==
    Join(StripNonEmpty(SplitOn(Strip(text_content), "\n")), Newline)

process_text(parameters, action_group, function_name, found) ==
    LET s3_bucket == DictGet(parameters, "s3_bucket", PNone)
        s3_key == DictGet(parameters, "s3_key", PNone)
        processing_type ==
            DictGet(parameters, "processing_type", PStr(S_extract))
        fetched == FetchText(s3_bucket, s3_key, found)
        text_content == fetched.value
        processed_text ==
            IF processing_type.s = S_clean THEN CleanText(text_content)
            ELSE text_content
        metadata ==
            IF processing_type.s = S_extract
            THEN [file_size |-> found.size,
                  character_count |-> Len(text_content),
                  word_count |-> WordCount(text_content),
                  file_type |-> FileType(s3_key.s)]
            ELSE IF processing_type.s = S_analyze
            THEN [file_size |-> found.size,
                  character_count |-> Len(text_content),
                  word_count |-> WordCount(text_content),
                  line_count |-> Len(SplitOn(text_content, "\n")),
                  file_type |-> FileType(s3_key.s),
                  sentiment |-> "neutral",
                  key_topics |-> <<"document", "text", "processing">>]
            ELSE [file_size |-> found.size,
                  original_character_count |-> Len(text_content),
                  cleaned_character_count |-> Len(processed_text),
                  file_type |-> FileType(s3_key.s)]
        result ==
            [processing_id |->
                [prefix |-> "proc_",
                 hash_of |-> s3_bucket.s \o s3_key.s \o processing_type.s],
             status |-> "completed",
             extracted_text |-> SliceTo(processed_text, ExtractLimit),
             metadata |-> metadata,
             processing_type |-> processing_type.s,
             source |-> [bucket |-> s3_bucket.s, key |-> s3_key.s]]
    IN  IF ~Truthy(s3_bucket) \/ ~Truthy(s3_key)
        THEN Returned(create_error_response(action_group, function_name,
                        "Missing required parameters",
                        DictDetails("required", <<"s3_bucket", "s3_key">>)),
                      <<>>)
        ELSE IF fetched.raised
        THEN \* the except at line 161 catches the fault of the fetch
             Returned(create_error_response(action_group, function_name,
                        "Text processing failed", StrDetails(fetched.msg)),
                      <<fetched.msg>>)
        ELSE IF ~(processing_type.t = "str"
                  /\ InList(processing_type.s, ProcessingTypes))
        THEN Returned(create_error_response(action_group, function_name,
                        "Invalid processing type",
                        DictDetails("valid_types", ProcessingTypes)), <<>>)
        ELSE Returned(create_success_response(action_group, function_name,
                        result), <<>>)

(***************************************************************************)
(* text_processor.py: lambda_handler                                       *)
(***************************************************************************)
text_lambda_handler(event, found) ==
    IF ~IsMapping(event) THEN HandlerExcept(event, NoAttributeGet)
    ELSE
    LET function_name == DictGet(event.fields, "function", NStr(""))
        action_group == DictGet(event.fields, "actionGroup", NStr(""))
        parameters_list == DictGet(event.fields, "parameters", EmptyList)
        parameters == NormalizeParameters(parameters_list)
    IN  IF parameters.raised THEN HandlerExcept(event, parameters.msg)
        ELSE IF function_name = NStr("process_text")
        THEN process_text(parameters.value, action_group, function_name,
                          found)
        ELSE Returned(create_error_response(action_group, function_name,
                        "Unknown function: " \o Format(function_name),
                        ListDetails(<<"process_text">>)), <<>>)

(***************************************************************************)
(* order-lookup/app.py.  Prices are in cents.                              *)
(***************************************************************************)
S_12345 == <<"1", "2", "3", "4", "5">>
S_67890 == <<"6", "7", "8", "9", "0">>

Order12345 ==
    [order_id |-> PStr(S_12345), customer_name |-> "John Doe",
     status |-> "shipped",
     items |-> <<[product |-> "Widget A", quantity |-> 2, price |-> 2999],
                 [product |-> "Widget B", quantity |-> 1, price |-> 4550]>>,
     total |-> 10548, tracking_number |-> NStr("TRK789456123")]

Order67890 ==
    [order_id |-> PStr(S_67890), customer_name |-> "Jane Smith",
     status |-> "processing",
     items |-> <<[product |-> "Gadget X", quantity |-> 1, price |-> 19999]>>,
     total |-> 19999, tracking_number |-> NNone]

\* lookup_order with mock_orders.get(order_id): no default for an unknown id.
lookup_order_no_default(order_id) ==
    IF order_id = PStr(S_12345) THEN Order12345
    ELSE IF order_id = PStr(S_67890) THEN Order67890
    ELSE PNone

lookup_order(order_id) ==
    IF order_id = PStr(S_12345) THEN Order12345
    ELSE IF order_id = PStr(S_67890) THEN Order67890
    ELSE [order_id |-> order_id, status |-> "not_found",
          message |-> "Order not found in system"]

\* for param in parameters:
\*     if param.get('name') == 'order_id':
\*         order_id = param.get('value'); break
\* (an entry with no name has name None, which equals no string)
RECURSIVE FindOrderId(_)
FindOrderId(items) ==
    IF items = <<>> THEN Ok(PNone)
    ELSE IF ~IsMapping(Head(items)) THEN Raise(NoAttributeGet)
    ELSE IF DictGet(Head(items).fields, "name", "") = "order_id"
    THEN Ok(DictGet(Head(items).fields, "value", PNone))
    ELSE FindOrderId(Tail(items))

HttpResponse(statusCode, body) == [statusCode |-> statusCode, body |-> body]

order_handler(event) ==
    IF ~IsMapping(event)
    THEN Returned(HttpResponse(500, [error |-> "Internal server error"]),
                  <<NoAttributeGet>>)
    ELSE
    LET parameters == DictGet(event.fields, "parameters", EmptyList)
        order_id == IF parameters.t # "list" THEN Raise(NotIterable)
                    ELSE FindOrderId(parameters.items)
    IN  IF order_id.raised
        THEN Returned(HttpResponse(500, [error |-> "Internal server error"]),
                      <<order_id.msg>>)
        ELSE IF ~Truthy(order_id.value)
        THEN Returned(HttpResponse(400,
                        [error |-> "Missing required parameter: order_id"]),
                      <<>>)
        ELSE Returned(HttpResponse(200,
                        [order |-> lookup_order(order_id.value),
                         message |-> <<"Successfully retrieved order ",
                                       order_id.value>>]),
                      <<>>)

(***************************************************************************)
(* product-search-api/app.py.  Prices are in cents.                        *)
(***************************************************************************)
MOCK_PRODUCTS ==
    <<
       [id |-> "1",
        name |-> <<"W", "i", "r", "e", "l", "e", "s", "s", " ", "H", "e", "a", "d", "p", "h", "o", "n", "e", "s">>,
        description |-> <<"H", "i", "g", "h", "-", "q", "u", "a", "l", "i", "t", "y", " ", "w", "i", "r", "e", "l", "e", "s", "s", " ", "h", "e", "a", "d", "p", "h", "o", "n", "e", "s">>,
        price |-> 9999, category |-> <<"E", "l", "e", "c", "t", "r", "o", "n", "i", "c", "s">>,
        in_stock |-> TRUE],
       [id |-> "2",
        name |-> <<"C", "o", "f", "f", "e", "e", " ", "M", "a", "k", "e", "r">>,
        description |-> <<"A", "u", "t", "o", "m", "a", "t", "i", "c", " ", "d", "r", "i", "p", " ", "c", "o", "f", "f", "e", "e", " ", "m", "a", "k", "e", "r">>,
        price |-> 7999, category |-> <<"K", "i", "t", "c", "h", "e", "n">>,
        in_stock |-> TRUE],
       [id |-> "3",
        name |-> <<"R", "u", "n", "n", "i", "n", "g", " ", "S", "h", "o", "e", "s">>,
        description |-> <<"C", "o", "m", "f", "o", "r", "t", "a", "b", "l", "e", " ", "r", "u", "n", "n", "i", "n", "g", " ", "s", "h", "o", "e", "s">>,
        price |-> 12999, category |-> <<"S", "p", "o", "r", "t", "s">>,
        in_stock |-> FALSE],
       [id |-> "4",
        name |-> <<"L", "a", "p", "t", "o", "p", " ", "S", "t", "a", "n", "d">>,
        description |-> <<"A", "d", "j", "u", "s", "t", "a", "b", "l", "e", " ", "l", "a", "p", "t", "o", "p", " ", "s", "t", "a", "n", "d">>,
        price |-> 4599, category |-> <<"O", "f", "f", "i", "c", "e">>,
        in_stock |-> TRUE],
       [id |-> "5",
        name |-> <<"S", "m", "a", "r", "t", "p", "h", "o", "n", "e">>,
        description |-> <<"L", "a", "t", "e", "s", "t", " ", "m", "o", "d", "e", "l", " ", "s", "m", "a", "r", "t", "p", "h", "o", "n", "e">>,
        price |-> 69999, category |-> <<"E", "l", "e", "c", "t", "r", "o", "n", "i", "c", "s">>,
        in_stock |-> TRUE]
    >>

DefaultLimit == 10

\* filtered_products[:request.limit]
Limited(products, limit) ==
    IF limit.t = "null" THEN products ELSE SliceTo(products, limit.n)

\* Mutant: the text search matches a prefix instead of a substring.
Matches_prefix(product, request) ==
    /\ \/ SliceTo(Lower(product.name), Len(request.query))
            = Lower(request.query)
       \/ SliceTo(Lower(product.description), Len(request.query))
            = Lower(request.query)
    /\ ~(Truthy(request.category)
         /\ Lower(product.category) # Lower(request.category.s))
    /\ ~(Truthy(request.min_price) /\ product.price < request.min_price.n)
    /\ ~(Truthy(request.max_price) /\ product.price > request.max_price.n)

\* The body of the loop: does the product pass the query and the filters?
Matches(product, request) ==
    /\ \/ Contains(Lower(product.name), Lower(request.query))
       \/ Contains(Lower(product.description), Lower(request.query))
    /\ ~(Truthy(request.category)
         /\ Lower(product.category) # Lower(request.category.s))
    /\ ~(Truthy(request.min_price) /\ product.price < request.min_price.n)
    /\ ~(Truthy(request.max_price) /\ product.price > request.max_price.n)

search_products(request) ==
    LET filtered_products ==
            SelectSeq(MOCK_PRODUCTS, LAMBDA p : Matches(p, request))
    IN  [products |-> Limited(filtered_products, request.limit),
         total_count |-> Len(filtered_products),
         query |-> request.query]

(***************************************************************************)
(* Inputs.                                                                 *)
(***************************************************************************)
SeqsUpTo(S, n) == UNION {[1..k -> S] : k \in 0..n}

RECURSIVE Repeat(_, _)
Repeat(s, k) == IF k = 0 THEN <<>> ELSE s \o Repeat(s, k - 1)

TextAlphabet == {"A", "B", ".", " "}

\* "A. B. C.", six sentences, and one sentence longer than the bullet limit
ExampleTexts ==
    { <<"A", ".", " ", "B", ".", " ", "C", ".">>,
      <<"A", ".", "B", ".", "A", ".", "B", ".", "A", ".", "B">>,
      Repeat(<<"A">>, BulletSentenceMax + 1) \o <<".", "B">> }

Texts == SeqsUpTo(TextAlphabet, MaxTextLen) \cup ExampleTexts

MaxLengthValues ==
    { PStr(<<"0">>), PStr(<<"1">>), PStr(<<"2">>), PStr(<<"3">>),
      PStr(<<"4">>), PStr(<<"1", "0">>), PStr(<<" ", "9">>), PStr(<<"x">>),
      PInt(5) }

Param(name, value) ==
    [t |-> "dict", fields |-> <<[key |-> "name", value |-> name],
                                [key |-> "value", value |-> value]>>]

Event(fields) == [t |-> "dict", fields |-> fields]

List(items) == [t |-> "list", items |-> items]

\* The event the orchestrator sends for one generate_summary call.
SummaryEvent(text, summary_type, max_length) ==
    Event(<<[key |-> "function", value |-> NStr("generate_summary")],
            [key |-> "actionGroup", value |-> NStr("summaries")],
            [key |-> "parameters", value |->
                  List(<<Param("text", PStr(text))>>
                       \o (IF summary_type = <<>> THEN <<>>
                           ELSE <<Param("summary_type", PStr(summary_type))>>)
                       \o (IF max_length = PNone THEN <<>>
                           ELSE <<Param("max_length", max_length)>>))]>>)

(***************************************************************************)
(* Inputs of the handlers: events that need not be well-formed.            *)
(***************************************************************************)
Absent == [t |-> "absent"]
JNull == [t |-> "null"]

Field(key, value) ==
    IF value = Absent THEN <<>> ELSE <<[key |-> key, value |-> value]>>

\* Payloads that are no mapping at all.
NonMappings == {List(<<>>), JNull}

\* An entry that is no mapping, and a mapping with neither name nor value.
BareEntries == {PStr(<<"x">>), [t |-> "dict", fields |-> <<>>]}

ParameterLists(entries) ==
    {Absent, JNull}
        \cup {List(items) : items \in SeqsUpTo(entries, MaxParams)}

FunctionFields(known) == {Absent, NNone, NStr(known), NStr("bogus")}

ActionGroupFields == {Absent, NStr("agent-actions")}

Events(known, entries) ==
    NonMappings \cup
    {Event(Field("function", f) \o Field("actionGroup", g)
               \o Field("parameters", p)) :
        f \in FunctionFields(known), g \in ActionGroupFields,
        p \in ParameterLists(entries)}

SummaryEntries ==
    BareEntries \cup
    { Param("text", PStr(<<"A", ".", " ", "B">>)),
      Param("text", PStr(<<"B">>)),
      Param("text", PStr(<<>>)),
      Param("text", PInt(5)),
      Param("summary_type", PStr(S_detailed)),
      Param("summary_type", PStr(<<"x">>)),
      Param("max_length", PStr(<<"3">>)) }

S_a_txt == <<"a", ".", "t", "x", "t">>
S_a_json == <<"A", ".", "J", "S", "O", "N">>
S_a_bin == <<"a", ".", "b", "i", "n">>

TextEntries ==
    BareEntries \cup
    { Param("s3_bucket", PStr(<<"b">>)),
      Param("s3_bucket", PStr(<<>>)),
      Param("s3_key", PStr(S_a_txt)),
      Param("s3_key", PStr(S_a_json)),
      Param("s3_key", PStr(S_a_bin)),
      Param("s3_key", PStr(<<>>)),
      Param("processing_type", PStr(S_clean)),
      Param("processing_type", PStr(S_analyze)),
      Param("processing_type", PStr(<<"x">>)) }

OrderEntries ==
    BareEntries \cup
    { Param("order_id", PStr(S_12345)),
      Param("order_id", PStr(S_67890)),
      Param("order_id", PStr(<<"7">>)),
      Param("order_id", PStr(<<>>)),
      Param("order_id", PNone),
      Param("customer", PStr(S_67890)) }

OrderEvents ==
    NonMappings \cup
    {Event(Field("inputText", t) \o Field("parameters", p)) :
        t \in {Absent, PStr(<<"A">>)}, p \in ParameterLists(OrderEntries)}

(***************************************************************************)
(* Inputs of the product search: validated ProductSearchRequest objects.   *)
(***************************************************************************)
S_phone == <<"p", "h", "o", "n", "e">>
S_Smartphone == <<"S", "m", "a", "r", "t", "p", "h", "o", "n", "e">>
S_Wireless_Headphones == <<"W", "i", "r", "e", "l", "e", "s", "s", " ", "H", "e", "a", "d", "p", "h", "o", "n", "e", "s">>

Queries ==
    { S_phone, <<"P", "H", "O", "N", "E">>, <<"S", "t", "a", "n", "d">>, <<"c", "o", "f", "f", "e", "e", " ", "m", "a", "k", "e", "r">>, <<"o">>, <<>>, <<"z">> }

Categories ==
    { PNone, PStr(<<>>), PStr(<<"E", "l", "e", "c", "t", "r", "o", "n", "i", "c", "s">>), PStr(<<"e", "l", "e", "c", "t", "r", "o", "n", "i", "c", "s">>), PStr(<<"T", "o", "y", "s">>) }

MinPrices == { PNone, PInt(0), PInt(5000), PInt(9999), PInt(70000) }

MaxPrices == { PNone, PInt(0), PInt(7999), PInt(69999) }

Limits == { PInt(DefaultLimit), PNone, PInt(0), PInt(1), PInt(2), PInt(-1) }

SearchRequests ==
    [query : Queries, category : Categories, min_price : MinPrices,
     max_price : MaxPrices, limit : Limits]

(***************************************************************************)
(* State machine.  Every handler is stateless: a step is one complete      *)
(* invocation, and the state records the last invocation and what it did.  *)
(***************************************************************************)
NoCall == [recorded |-> FALSE]

Init ==
    /\ handler = "none"
    /\ input = <<>>
    /\ outcome = <<>>
    /\ first = NoCall

\* The observer's record once one more invocation has started: "next" is
\* the invocation right after the recorded one, "later" any one after it.
Later(record) ==
    IF ~record.recorded THEN record
    ELSE [record EXCEPT !.phase = IF @ = "first" THEN "next" ELSE "later"]

Invoke(name, event, result) ==
    /\ handler' = name
    /\ input' = event
    /\ outcome' = result
    /\ first' = Later(first)

\* One generate_summary request through the summary generator's handler.
SummaryRequest ==
    /\ handler = "none"
    /\ \E text \in Texts, max_length \in MaxLengthValues \cup {PNone},
          summary_type \in {<<>>, S_brief, S_detailed, S_bullet_points} :
        LET event == SummaryEvent(text, summary_type, max_length)
        IN  Invoke("summary_generator", event, summary_lambda_handler(event))

\* The invocation is over: nothing is kept for the next one.
Complete ==
    /\ handler # "none"
    /\ handler' = "none"
    /\ input' = <<>>
    /\ outcome' = <<>>
    /\ UNCHANGED first

NextSummary == SummaryRequest \/ Complete

SpecSummary == Init /\ [][NextSummary]_vars

(***************************************************************************)
(* The handlers on events of every shape.                                  *)
(***************************************************************************)
SummaryGenerator ==
    /\ handler = "none"
    /\ \E event \in Events("generate_summary", SummaryEntries) :
          Invoke("summary_generator", event, summary_lambda_handler(event))

TextProcessor ==
    /\ handler = "none"
    /\ \E event \in Events("process_text", TextEntries),
          found \in StoreOutcomes :
          Invoke("text_processor", [event |-> event, found |-> found],
                 text_lambda_handler(event, found))

OrderLookup ==
    /\ handler = "none"
    /\ \E event \in OrderEvents :
          Invoke("order_lookup", event, order_handler(event))

Next == SummaryGenerator \/ TextProcessor \/ OrderLookup \/ Complete

Spec == Init /\ [][Next]_vars

(***************************************************************************)
(* POST /search                                                            *)
(***************************************************************************)
SearchProducts ==
    /\ handler = "none"
    /\ \E request \in SearchRequests :
          Invoke("product_search", request,
                 Returned(search_products(request), <<>>))

NextSearch == SearchProducts \/ Complete

SpecSearch == Init /\ [][NextSearch]_vars

(***************************************************************************)
(* One process serving one invocation after another: brief summaries, one  *)
(* of which the observer writes down, and invocations of every handler in  *)
(* between.                                                                *)
(***************************************************************************)
RepeatTexts == SeqsUpTo(TextAlphabet, MaxRepeatLen)

RepeatMaxLengths == {PNone, PStr(<<"1">>), PStr(<<"3">>)}

\* Other work of the summary generator: the other summary types, an
\* unsupported function and a payload that is no mapping.
OtherSummaryEvents ==
    { SummaryEvent(<<"A", ".", "B">>, S_detailed, PNone),
      SummaryEvent(<<"A", ".", "B">>, S_bullet_points, PStr(<<"1">>)),
      Event(Field("function", NStr("bogus"))),
      List(<<>>) }

OtherTextEvents ==
    { Event(Field("function", NStr("process_text"))
            \o Field("parameters",
                     List(<<Param("s3_bucket", PStr(<<"b">>)),
                            Param("s3_key", PStr(S_a_txt))>>))) }

OtherOrderEvents ==
    { Event(Field("parameters", List(<<Param("order_id", id)>>))) :
        id \in {PStr(S_12345), PStr(<<"7">>), PStr(<<>>)} }

OtherSearchRequests ==
    { request \in SearchRequests :
        /\ request.category = PNone
        /\ request.min_price = PNone
        /\ request.max_price = PNone
        /\ request.limit = PInt(DefaultLimit) }

\* One brief-summary request; the observer may write down what it saw if it
\* has written down nothing yet.
BriefSummary ==
    /\ handler = "none"
    /\ \E text \in RepeatTexts, max_length \in RepeatMaxLengths,
          keep \in BOOLEAN :
        LET event == SummaryEvent(text, S_brief, max_length)
            result == summary_lambda_handler(event)
        IN  /\ handler' = "summary_generator"
            /\ input' = event
            /\ outcome' = result
            /\ first' = IF keep /\ ~first.recorded
                        THEN [recorded |-> TRUE, text |-> text,
                              max_length |-> max_length, outcome |-> result,
                              phase |-> "first"]
                        ELSE Later(first)

OtherSummary ==
    /\ handler = "none"
    /\ \E event \in OtherSummaryEvents :
          Invoke("summary_generator", event, summary_lambda_handler(event))

OtherTextProcessor ==
    /\ handler = "none"
    /\ \E event \in OtherTextEvents, found \in StoreOutcomes :
          Invoke("text_processor", [event |-> event, found |-> found],
                 text_lambda_handler(event, found))

OtherOrderLookup ==
    /\ handler = "none"
    /\ \E event \in OtherOrderEvents :
          Invoke("order_lookup", event, order_handler(event))

OtherSearchProducts ==
    /\ handler = "none"
    /\ \E request \in OtherSearchRequests :
          Invoke("product_search", request,
                 Returned(search_products(request), <<>>))

NextRepeat ==
    \/ BriefSummary
    \/ OtherSummary
    \/ OtherTextProcessor
    \/ OtherOrderLookup
    \/ OtherSearchProducts
    \/ Complete

SpecRepeat == Init /\ [][NextRepeat]_vars

(***************************************************************************)
(* Vocabulary of the properties: the request as the orchestrator sent it   *)
(* and the response as it reads it.                                        *)
(***************************************************************************)
Called(name) == handler = name

\* The event of the request (the text processor's input also records what
\* the object store held).
RequestEvent == IF handler = "text_processor" THEN input.event ELSE input

RequestParameters == DictGet(RequestEvent.fields, "parameters", EmptyList)

\* The parameters list of the request is a list of mappings (or absent).
ReadableParameters ==
    /\ IsMapping(RequestEvent)
    /\ RequestParameters.t = "list"
    /\ \A i \in 1..Len(RequestParameters.items) :
          IsMapping(RequestParameters.items[i])

RequestItems == RequestParameters.items

ItemName(item) == DictGet(item.fields, "name", "")
ItemValue(item) == DictGet(item.fields, "value", PStr(<<>>))

Given(name) == \E i \in 1..Len(RequestItems) : ItemName(RequestItems[i]) = name

\* The value of the last entry with that name.
LastGiven(name) ==
    ItemValue(RequestItems[CHOOSE i \in 1..Len(RequestItems) :
        /\ ItemName(RequestItems[i]) = name
        /\ \A j \in (i + 1)..Len(RequestItems) :
              ItemName(RequestItems[j]) # name])

RequestedFunction == DictGet(RequestEvent.fields, "function", NStr(""))
RequestedActionGroup == DictGet(RequestEvent.fields, "actionGroup", NStr(""))

\* The function name the handler called serves.
Supported ==
    IF handler = "summary_generator" THEN "generate_summary"
    ELSE "process_text"

FunctionCallHandler == Called("summary_generator") \/ Called("text_processor")

KnownFunctionCalled ==
    /\ FunctionCallHandler
    /\ ReadableParameters
    /\ RequestedFunction = NStr(Supported)

ReturnedEnvelope == ~outcome.raised

FunctionResponse == outcome.value.response.functionResponse
ResponseBody == FunctionResponse.responseBody.TEXT.body

IsFailure ==
    /\ ReturnedEnvelope
    /\ "responseState" \in DOMAIN FunctionResponse
    /\ FunctionResponse.responseState = "FAILURE"

IsSuccess ==
    /\ ReturnedEnvelope
    /\ "responseState" \notin DOMAIN FunctionResponse

HasDetails == "details" \in DOMAIN ResponseBody

\* A summary request that was answered with a summary.
Summarized == Called("summary_generator") /\ ReadableParameters /\ IsSuccess

RequestedText == LastGiven("text").s

RequestedType ==
    IF Given("summary_type") THEN LastGiven("summary_type").s ELSE S_brief

\* The summary of the same text and type with no max_length.
Untruncated ==
    IF RequestedType = S_brief
    THEN generate_brief_summary(RequestedText, PNone)
    ELSE IF RequestedType = S_detailed
    THEN generate_detailed_summary(RequestedText, PNone)
    ELSE generate_bullet_points_summary(RequestedText, PNone)

PositiveMaxLength ==
    /\ Given("max_length")
    /\ ~PyInt(LastGiven("max_length")).raised
    /\ PyInt(LastGiven("max_length")).value > 0

RequestedMaxLength == PyInt(LastGiven("max_length")).value

(***************************************************************************)
(* C1: for every raw payload, also one that is no mapping or whose         *)
(* function, actionGroup or parameters are absent, null or malformed, each *)
(* handler entry point returns one response envelope and lets no fault     *)
(* escape: an internal fault ends in a Failure envelope, or statusCode 500 *)
(* for the order lookup.                                                   *)
(***************************************************************************)
C1_NoFaultEscapes ==
    /\ FunctionCallHandler
        => /\ ReturnedEnvelope
           /\ outcome.caught # <<>> => IsFailure
    /\ Called("order_lookup")
        => /\ ReturnedEnvelope
           /\ outcome.caught # <<>> => outcome.value.statusCode = 500

\* A payload that is no mapping: the fault escapes the summary generator.
C1_Witness ==
    /\ Called("summary_generator")
    /\ ~IsMapping(input)
    /\ outcome.raised

(***************************************************************************)
(* C2: when the function name of a request to the summary generator or the *)
(* text processor is not the one the handler supports (an absent name is   *)
(* the empty string), the response is a Failure envelope whose error is    *)
(* "Unknown function: <name>" and whose details are exactly the list of    *)
(* the handler's supported function names.  The request is one whose       *)
(* parameters list can be read.                                            *)
(***************************************************************************)
NameText(name) == IF name.t = "str" THEN name.v ELSE "None"

C2_UnknownFunctionListsSupported ==
    (FunctionCallHandler /\ ReadableParameters
                         /\ RequestedFunction # NStr(Supported))
        => /\ IsFailure
           /\ ResponseBody.error
                = "Unknown function: " \o NameText(RequestedFunction)
           /\ HasDetails
           /\ ResponseBody.details.kind = "list"
           /\ ResponseBody.details.items = <<Supported>>

C2_Witness ==
    /\ Called("text_processor")
    /\ ReadableParameters
    /\ ~HasKey(RequestEvent.fields, "function")
    /\ IsFailure
    /\ ResponseBody.error = "Unknown function: "
    /\ ResponseBody.details.items = <<"process_text">>

(***************************************************************************)
(* C3: parameter normalization is last-write-wins in every handler that    *)
(* reads the parameters list: when a name occurs more than once, the value *)
(* the handler uses is that of the last entry with the name; two order_id  *)
(* entries make the order lookup use the second.                           *)
(***************************************************************************)
ParameterNames ==
    <<"", "text", "summary_type", "max_length", "s3_bucket", "s3_key",
      "processing_type">>

\* The mapping of every given name to the value of its last entry.
RECURSIVE LastWins(_)
LastWins(names) ==
    IF names = <<>> THEN <<>>
    ELSE (IF Given(Head(names))
          THEN <<[key |-> Head(names), value |-> LastGiven(Head(names))]>>
          ELSE <<>>) \o LastWins(Tail(names))

C3_LastWriteWins ==
    /\ (KnownFunctionCalled /\ Called("summary_generator"))
        => outcome = generate_summary(LastWins(ParameterNames),
                        RequestedActionGroup, RequestedFunction)
    /\ (KnownFunctionCalled /\ Called("text_processor"))
        => outcome = process_text(LastWins(ParameterNames),
                        RequestedActionGroup, RequestedFunction, input.found)
    /\ (Called("order_lookup") /\ ReadableParameters /\ Given("order_id")
            /\ LastGiven("order_id").t = "str"
            /\ LastGiven("order_id").s # <<>>)
        => /\ ReturnedEnvelope
           /\ outcome.value.statusCode = 200
           /\ outcome.value.body.order.order_id = LastGiven("order_id")

\* Two order_id entries: the order lookup answers for the first.
C3_Witness ==
    /\ Called("order_lookup")
    /\ ReadableParameters
    /\ Len(RequestItems) = 2
    /\ ItemName(RequestItems[1]) = "order_id"
    /\ ItemValue(RequestItems[1]) = PStr(S_12345)
    /\ ItemName(RequestItems[2]) = "order_id"
    /\ ItemValue(RequestItems[2]) = PStr(S_67890)
    /\ outcome.value.body.order = Order12345

(***************************************************************************)
(* C4: a summary request with a positive integer max_length smaller than   *)
(* the length of the untruncated summary returns, for each summary type, a *)
(* summary that ends with "..." and is no longer than max_length, also for *)
(* max_length 1 and 2.  The text is one with at least one sentence.        *)
(***************************************************************************)
C4_TruncatedWithinMaxLength ==
    (Summarized /\ PositiveMaxLength
                /\ Sentences(RequestedText) # <<>>
                /\ RequestedMaxLength < Len(Untruncated))
        => /\ EndsWith(ResponseBody.summary, Ellipsis)
           /\ Len(ResponseBody.summary) <= RequestedMaxLength

C4_Witness ==
    /\ Summarized /\ PositiveMaxLength
    /\ RequestedMaxLength = 1
    /\ RequestedText = <<"A", "B">>
    /\ RequestedType = S_brief
    /\ ResponseBody.summary = Ellipsis

(***************************************************************************)
(* C5: when a known function is invoked and its task handler hits a        *)
(* runtime fault (the object-store read fails, the bytes do not decode or  *)
(* parse), the response is a Failure envelope whose error message is the   *)
(* fault's own message and which carries no details; the fault is not      *)
(* propagated.                                                             *)
(***************************************************************************)
TaskFault == KnownFunctionCalled /\ ReturnedEnvelope /\ outcome.caught # <<>>

C5_FaultMessageIsError ==
    (KnownFunctionCalled /\ outcome.caught # <<>>)
        => /\ IsFailure
           /\ ResponseBody.error = outcome.caught[1]
           /\ ~HasDetails

\* C5 as amended: the fault is not propagated and the response is a Failure
\* envelope whose error is the handler's fixed message ("Summary generation
\* failed", "Text processing failed") and whose details are the fault's own
\* message.
C5_FaultMessageIsDetails ==
    (KnownFunctionCalled /\ outcome.caught # <<>>)
        => /\ IsFailure
           /\ ResponseBody.error =
                (IF Called("summary_generator")
                 THEN "Summary generation failed"
                 ELSE "Text processing failed")
           /\ HasDetails
           /\ ResponseBody.details.kind = "str"
           /\ ResponseBody.details.text = outcome.caught[1]
           /\ Len(outcome.caught) = 1

C5_Witness ==
    /\ Called("text_processor")
    /\ TaskFault
    /\ input.found = NoSuchKey
    /\ ResponseBody.error = "Text processing failed"
    /\ ResponseBody.details.text = MsgNoSuchKey

(***************************************************************************)
(* C6: when a declared required parameter (text for generate_summary,      *)
(* s3_bucket or s3_key for process_text, order_id for the order lookup) is *)
(* absent or empty, the handler returns, without a runtime fault, a        *)
(* failure response (a Failure envelope; statusCode 400 for the order      *)
(* lookup) whose error is "Missing required parameter: <name>" for the     *)
(* missing parameter, with no details.                                     *)
(***************************************************************************)
\* Absent or empty under last-write-wins: no entry has the name, or the
\* last one has an empty value.
IsEmpty(value) == value = PNone \/ value = PStr(<<>>)

Missing(name) == ~Given(name) \/ IsEmpty(LastGiven(name))

\* Absent or empty whatever entry is read: no entry of the name has a
\* value that is not empty.
NowhereFilled(name) ==
    \A i \in 1..Len(RequestItems) :
        ItemName(RequestItems[i]) = name => IsEmpty(ItemValue(RequestItems[i]))

MissingText == KnownFunctionCalled /\ Called("summary_generator")
                  /\ Missing("text")

MissingBucketOrKey == KnownFunctionCalled /\ Called("text_processor")
                         /\ (Missing("s3_bucket") \/ Missing("s3_key"))

MissingOrderId == Called("order_lookup") /\ ReadableParameters
                     /\ NowhereFilled("order_id")

C6_MissingParameterNamed ==
    /\ MissingText
        => /\ IsFailure /\ outcome.caught = <<>>
           /\ ResponseBody = [error |-> "Missing required parameter: text"]
    /\ MissingBucketOrKey
        => /\ IsFailure /\ outcome.caught = <<>>
           /\ \/ /\ Missing("s3_bucket")
                 /\ ResponseBody
                      = [error |-> "Missing required parameter: s3_bucket"]
              \/ /\ Missing("s3_key")
                 /\ ResponseBody
                      = [error |-> "Missing required parameter: s3_key"]
    /\ MissingOrderId
        => /\ ReturnedEnvelope /\ outcome.caught = <<>>
           /\ outcome.value.statusCode = 400
           /\ outcome.value.body
                = [error |-> "Missing required parameter: order_id"]

\* C6 as amended: for text and order_id as claimed (order_id being absent
\* or empty when no order_id entry carries a value); for s3_bucket or
\* s3_key the Failure envelope's error is "Missing required parameters",
\* naming no parameter, and its details are {required: [s3_bucket, s3_key]}.
C6_MissingParameterReported ==
    /\ MissingText
        => /\ IsFailure /\ outcome.caught = <<>>
           /\ ResponseBody = [error |-> "Missing required parameter: text"]
    /\ MissingBucketOrKey
        => /\ IsFailure /\ outcome.caught = <<>>
           /\ ResponseBody
                = [error |-> "Missing required parameters",
                   details |-> DictDetails("required",
                                           <<"s3_bucket", "s3_key">>)]
    /\ MissingOrderId
        => /\ ReturnedEnvelope /\ outcome.caught = <<>>
           /\ outcome.value.statusCode = 400
           /\ outcome.value.body
                = [error |-> "Missing required parameter: order_id"]

\* s3_bucket given, s3_key given but empty.
C6_Witness ==
    /\ MissingBucketOrKey
    /\ Given("s3_bucket") /\ ~IsEmpty(LastGiven("s3_bucket"))
    /\ Given("s3_key") /\ LastGiven("s3_key") = PStr(<<>>)
    /\ IsFailure
    /\ ResponseBody.error = "Missing required parameters"

(***************************************************************************)
(* C7: when the enumerated parameter is outside its fixed set (summary_type *)
(* with text present; processing_type with s3_bucket and s3_key present),  *)
(* the response is a Failure envelope with message "Invalid <field>" and   *)
(* details listing exactly the valid options, whatever the outcome of the  *)
(* remote object-store read (success, missing object, undecodable          *)
(* content).                                                               *)
(***************************************************************************)
InvalidSummaryType ==
    /\ KnownFunctionCalled /\ Called("summary_generator")
    /\ ~Missing("text")
    /\ Given("summary_type")
    /\ ~InList(LastGiven("summary_type").s, SummaryTypes)

InvalidProcessingType ==
    /\ KnownFunctionCalled /\ Called("text_processor")
    /\ ~Missing("s3_bucket") /\ ~Missing("s3_key")
    /\ Given("processing_type")
    /\ ~InList(LastGiven("processing_type").s, ProcessingTypes)

C7_InvalidOptionListsValid ==
    /\ InvalidSummaryType
        => /\ IsFailure
           /\ ResponseBody.error = "Invalid summary_type"
           /\ HasDetails
           /\ ResponseBody.details.items = SummaryTypes
    /\ InvalidProcessingType
        => /\ IsFailure
           /\ ResponseBody.error
                \in {"Invalid processing type", "Invalid processing_type"}
           /\ HasDetails
           /\ ResponseBody.details.kind = "dict"
           /\ ResponseBody.details.items = ProcessingTypes

\* An invalid processing_type with the object missing from the store: the
\* response reports the failed read.
C7_Witness ==
    /\ InvalidProcessingType
    /\ input.found = NoSuchKey
    /\ IsFailure
    /\ ResponseBody.error = "Text processing failed"

(***************************************************************************)
(* C8: for a text that is one sentence with no period, and no max_length,  *)
(* the brief and the detailed summary are both exactly that sentence.      *)
(***************************************************************************)
SingleSentenceNoPeriod(text) ==
    /\ \A i \in 1..Len(text) : text[i] # "."
    /\ \E i \in 1..Len(text) : text[i] \notin Whitespace

C8_BriefAndDetailedVerbatim ==
    (Summarized /\ ~Given("max_length")
                /\ SingleSentenceNoPeriod(RequestedText)
                /\ RequestedType \in {S_brief, S_detailed})
        => ResponseBody.summary = Strip(RequestedText)

\* C8 as amended: the brief summary is exactly that sentence (the text
\* itself when no whitespace surrounds it); the detailed summary is that
\* sentence followed by one period.
C8_BriefVerbatimDetailedWithPeriod ==
    (Summarized /\ ~Given("max_length")
                /\ SingleSentenceNoPeriod(RequestedText))
        => /\ RequestedType = S_brief
                => /\ ResponseBody.summary = Strip(RequestedText)
                   /\ (Head(RequestedText) \notin Whitespace
                       /\ RequestedText[Len(RequestedText)] \notin Whitespace)
                        => ResponseBody.summary = RequestedText
           /\ RequestedType = S_detailed
                => ResponseBody.summary = Strip(RequestedText) \o <<".">>

C8_Witness ==
    /\ Summarized /\ ~Given("max_length")
    /\ RequestedText = <<"A", " ", "B">>
    /\ RequestedType = S_detailed
    /\ ResponseBody.summary = <<"A", " ", "B", ".">>

(***************************************************************************)
(* C9: the search for "phone" with no category, no price filter and the    *)
(* default limit 10 returns exactly one product, "Smartphone", with        *)
(* total_count = 1.                                                        *)
(***************************************************************************)
PhoneSearch ==
    /\ Called("product_search")
    /\ input.query = S_phone
    /\ input.category = PNone
    /\ input.min_price = PNone
    /\ input.max_price = PNone
    /\ input.limit = PInt(DefaultLimit)

ProductNames(products) == [i \in 1..Len(products) |-> products[i].name]

C9_PhoneFindsOnlySmartphone ==
    PhoneSearch
        => /\ ProductNames(outcome.value.products) = <<S_Smartphone>>
           /\ outcome.value.total_count = 1

\* C9 as amended: the search returns exactly two products, "Wireless
\* Headphones" and "Smartphone" in catalog order, with total_count = 2
\* ("phone" is a substring of "Headphones").
C9_PhoneFindsHeadphonesAndSmartphone ==
    PhoneSearch
        => /\ ProductNames(outcome.value.products)
                = <<S_Wireless_Headphones, S_Smartphone>>
           /\ outcome.value.total_count = 2

C9_Witness ==
    /\ PhoneSearch
    /\ ~outcome.raised
    /\ Len(outcome.value.products) = 2
    /\ outcome.value.products[2].id = "5"

(***************************************************************************)
(* C10: for a text of three or more sentences (split on '.', fragments     *)
(* stripped, empty fragments dropped) and no max_length, the brief summary *)
(* is the first sentence, ". ", the last sentence, with no trailing        *)
(* period; "A. B. C." gives "A. C".                                        *)
(***************************************************************************)
C10_BriefFirstAndLast ==
    (Summarized /\ ~Given("max_length") /\ RequestedType = S_brief
                /\ Len(Sentences(RequestedText)) >= 3)
        => /\ ResponseBody.summary =
                Sentences(RequestedText)[1] \o <<".", " ">>
                \o Sentences(RequestedText)[Len(Sentences(RequestedText))]
           /\ ~EndsWith(ResponseBody.summary, <<".">>)
           /\ RequestedText = <<"A", ".", " ", "B", ".", " ", "C", ".">>
                => ResponseBody.summary = <<"A", ".", " ", "C">>

C10_Witness ==
    /\ Summarized /\ ~Given("max_length") /\ RequestedType = S_brief
    /\ RequestedText = <<"A", ".", " ", "B", ".", " ", "C", ".">>
    /\ ResponseBody.summary = <<"A", ".", " ", "C">>

(***************************************************************************)
(* C11: an order lookup whose order_id is a non-empty string that is no    *)
(* key of the mock order table returns statusCode 200 with the order data  *)
(* {order_id: the requested id, status: "not_found", message}, and never a *)
(* 400 or a 500.  The requested id is the value every order_id entry of    *)
(* the request carries.                                                    *)
(***************************************************************************)
OrderIdEntries ==
    {i \in 1..Len(RequestItems) : ItemName(RequestItems[i]) = "order_id"}

\* The request names one order id: every order_id entry carries it.
OrderIdRequested ==
    /\ Called("order_lookup")
    /\ ReadableParameters
    /\ OrderIdEntries # {}
    /\ \A i, j \in OrderIdEntries :
          ItemValue(RequestItems[i]) = ItemValue(RequestItems[j])

RequestedOrderId == LastGiven("order_id")

MockOrderKeys == {PStr(S_12345), PStr(S_67890)}

UnknownOrderRequested ==
    /\ OrderIdRequested
    /\ RequestedOrderId.t = "str"
    /\ RequestedOrderId.s # <<>>
    /\ RequestedOrderId \notin MockOrderKeys

C11_UnknownOrderNotFound ==
    UnknownOrderRequested
        => /\ ReturnedEnvelope /\ outcome.caught = <<>>
           /\ outcome.value.statusCode = 200
           /\ outcome.value.body.order
                = [order_id |-> RequestedOrderId, status |-> "not_found",
                   message |-> "Order not found in system"]

\* order_id '7' next to another parameter.
C11_Witness ==
    /\ UnknownOrderRequested
    /\ Len(RequestItems) = 2
    /\ RequestedOrderId = PStr(<<"7">>)
    /\ outcome.value.statusCode = 200
    /\ outcome.value.body.order.status = "not_found"

(***************************************************************************)
(* C12: handlers keep nothing between calls, so within one process a brief *)
(* summary request with the same text and the same max_length as an        *)
(* earlier one gets the same response as that earlier one, whatever        *)
(* invocations (of any handler) were served in between.                    *)
(***************************************************************************)
GivenMaxLength ==
    IF Given("max_length") THEN LastGiven("max_length") ELSE PNone

\* The request in progress asks for the brief summary the observer wrote
\* down: same text, same max_length.
SameBriefRequest ==
    /\ Called("summary_generator")
    /\ first.recorded
    /\ KnownFunctionCalled
    /\ Given("text")
    /\ RequestedType = S_brief
    /\ RequestedText = first.text
    /\ GivenMaxLength = first.max_length

PriceSearch ==
    /\ Called("product_search")
    /\ input.min_price # PNone \/ input.max_price # PNone
    /\ input.category # PStr(<<>>)

\* The price is within the bounds the request gives.
WithinPrices(product, request) ==
    /\ request.min_price # PNone => product.price >= request.min_price.n
    /\ request.max_price # PNone => product.price <= request.max_price.n

PassesFilters(product, request) ==
    /\ \/ Contains(Lower(product.name), Lower(request.query))
       \/ Contains(Lower(product.description), Lower(request.query))
    /\ request.category # PNone
          => Lower(product.category) = Lower(request.category.s)
    /\ WithinPrices(product, request)

Passing == SelectSeq(MOCK_PRODUCTS, LAMBDA p : PassesFilters(p, input))

C13_PricesWithinBounds ==
    PriceSearch
        => LET found == outcome.value
           IN  /\ \A i \in 1..Len(found.products) :
                     WithinPrices(found.products[i], input)
               /\ found.total_count = Len(Passing)
               /\ (input.limit # PNone /\ input.limit.n >= 0)
                     => found.products
                          = SubSeq(Passing, 1, Min(input.limit.n, Len(Passing)))

\* max_price 0 and every product of the catalog returned.
C13_Witness ==
    /\ PriceSearch
    /\ input.query = <<>>
    /\ input.category = PNone
    /\ input.min_price = PNone
    /\ input.max_price = PInt(0)
    /\ input.limit = PInt(DefaultLimit)
    /\ outcome.value.products = MOCK_PRODUCTS
    /\ outcome.value.total_count = Len(MOCK_PRODUCTS)

====
